---------------------------- MODULE Spec2Model ----------------------------
(***************************************************************************)
(* The ResearchForm component: a zod schema, a react-hook-form form, two   *)
(* useState flags (isSubmitting, isSubmitted) and the async onSubmit       *)
(* handler that POSTs the validated values.                                *)
(*                                                                         *)
(* Two variants of the component exist:                                    *)
(*   "userUrl"  - components/landing/ResearchForm.tsx: the schema and the  *)
(*                form hold a fifth field, submissionUrl;                  *)
(*   "fixedUrl" - the second copy: the endpoint is the submissionUrl prop. *)
(*                                                                         *)
(* form.handleSubmit(onSubmit) is asynchronous: it awaits the resolver and  *)
(* calls onSubmit afterwards, so an invocation is first "validating" and,   *)
(* once onSubmit has issued its fetch, "fetching".                          *)
(*                                                                         *)
(* Strings are sequences of one-character strings, so that trim, length    *)
(* and the format checks are computed on the characters.                   *)
(***************************************************************************)
EXTENDS Naturals, Sequences, FiniteSets

VARIABLES
    variant,       \* which copy of the component this instance is
    show,          \* the show prop
    formValues,    \* react-hook-form's field values
    errors,        \* react-hook-form's formState.errors: failing field -> kind
    isSubmitting,  \* useState(false)
    isSubmitted,   \* useState(false)
    calls,         \* the handleSubmit/onSubmit invocations, by slot
    lastRun        \* what the onSubmit invocation that settled last did

vars == <<variant, show, formValues, errors, isSubmitting, isSubmitted, calls, lastRun>>

----------------------------------------------------------------------------
(* Bounds *)

\* handleSubmit invocations that may be outstanding at once
MaxCalls == 2

\* blanks the validation inputs carry around a value (leading + trailing)
MaxPad == 1

----------------------------------------------------------------------------
(* Characters and strings *)

Lower == {"a","b","c","d","e","f","g","h","i","j","k","l","m",
          "n","o","p","q","r","s","t","u","v","w","x","y","z"}

Upper == {"A","B","C","D","E","F","G","H","I","J","K","L","M",
          "N","O","P","Q","R","S","T","U","V","W","X","Y","Z"}

Digit == {"0","1","2","3","4","5","6","7","8","9"}

Letter == Lower \cup Upper

AlNum == Letter \cup Digit

IsSpace(c) == c \in {" ", "\t", "\n"}

Rep(c, n) == [i \in 1..n |-> c]

\* String.prototype.trim(), as zod's .trim() applies it
Trim(s) ==
    IF \A i \in 1..Len(s) : IsSpace(s[i])
    THEN <<>>
    ELSE LET a == CHOOSE i \in 1..Len(s) :
                      ~IsSpace(s[i]) /\ \A j \in 1..(i-1) : IsSpace(s[j])
             b == CHOOSE i \in 1..Len(s) :
                      ~IsSpace(s[i]) /\ \A j \in (i+1)..Len(s) : IsSpace(s[j])
         IN  SubSeq(s, a, b)

----------------------------------------------------------------------------
(* The schema *)

NameMax == 100
PhoneMax == 20
EmailMax == 255
TopicMax == 500

Variants == {"userUrl", "fixedUrl"}

TextFields == {"name", "phone", "email", "researchTopic"}

Fields(v) == IF v = "userUrl" THEN TextFields \cup {"submissionUrl"} ELSE TextFields

DefaultUrl == <<"h","t","t","p","s",":","/","/","j","s","o","n","p","l","a","c","e",
                "h","o","l","d","e","r",".","t","y","p","i","c","o","d","e",".",
                "c","o","m","/","p","o","s","t","s">>

\* useForm's defaultValues
DefaultValues(v) ==
    [f \in Fields(v) |-> IF f = "submissionUrl" THEN DefaultUrl ELSE <<>>]

\* zod's email pattern:
\*   ^(?!\.)(?!.*\.\.)([A-Z0-9_'+\-\.]*)[A-Z0-9_+-]@([A-Z0-9][A-Z0-9\-]*\.)+[A-Z]{2,}$
IsEmail(t) ==
    /\ Len(t) > 0
    /\ t[1] # "."
    /\ \A i \in 1..(Len(t)-1) : ~(t[i] = "." /\ t[i+1] = ".")
    /\ \E p \in 2..Len(t) :
         /\ t[p] = "@"
         /\ \A i \in 1..(p-1) : t[i] \in AlNum \cup {"_", "'", "+", "-", "."}
         /\ t[p-1] \in AlNum \cup {"_", "+", "-"}
         /\ \E q \in (p+2)..(Len(t)-2) :
              /\ t[q] = "."
              /\ \A i \in (q+1)..Len(t) : t[i] \in Letter
              /\ t[p+1] \in AlNum
              /\ \A i \in (p+1)..(q-1) : t[i] \in AlNum \cup {"-", "."}
              /\ \A i \in (p+1)..(q-1) : t[i] = "." => t[i+1] \in AlNum

SpecialSchemes == { <<"h","t","t","p">>, <<"h","t","t","p","s">> }

\* zod's .url(): new URL(value) does not throw.  The URL parser drops leading
\* and trailing blanks, wants a scheme (a letter, then letters, digits, + - .)
\* before the first ":", and for http(s) a non-empty host after the slashes.
IsUrl(s) ==
    LET t == Trim(s) IN
    \E k \in 2..Len(t) :
        /\ t[k] = ":"
        /\ t[1] \in Letter
        /\ \A i \in 2..(k-1) : t[i] \in AlNum \cup {"+", "-", "."}
        /\ SubSeq(t, 1, k-1) \in SpecialSchemes =>
             \E h \in (k+1)..Len(t) :
                 /\ \A i \in (k+1)..(h-1) : t[i] \in {"/", "\\"}
                 /\ t[h] \notin {"/", "\\", "?", "#", ":", "@", " "}

\* CheckRequired with the .trim() left out
CheckRequiredUntrimmed(s, max) ==
    IF Len(s) < 1 THEN "required"
    ELSE IF Len(s) > max THEN "too_long"
    ELSE "ok"

\* z.string().trim().min(1).max(max): the first issue of the field
CheckRequired(s, max) ==
    LET t == Trim(s) IN
    IF Len(t) < 1 THEN "required"
    ELSE IF Len(t) > max THEN "too_long"
    ELSE "ok"

\* z.string().trim().email().max(255)
CheckEmail(s) ==
    LET t == Trim(s) IN
    IF ~IsEmail(t) THEN "format"
    ELSE IF Len(t) > EmailMax THEN "too_long"
    ELSE "ok"

\* z.string().url().optional().or(z.literal('')): not trimmed; the resolver
\* reports the first issue of the union's first member
CheckUrl(s) ==
    IF s = <<>> THEN "ok"
    ELSE IF IsUrl(s) THEN "ok"
    ELSE "format"

CheckField(f, s) ==
    CASE f = "name"          -> CheckRequired(s, NameMax)
      [] f = "phone"         -> CheckRequired(s, PhoneMax)
      [] f = "email"         -> CheckEmail(s)
      [] f = "researchTopic" -> CheckRequired(s, TopicMax)
      [] f = "submissionUrl" -> CheckUrl(s)

\* zodResolver(researchFormSchema): the failing fields, each with its issue
Validate(values) ==
    LET bad == {f \in DOMAIN values : CheckField(f, values[f]) # "ok"}
    IN  [f \in bad |-> CheckField(f, values[f])]

NoErrors == [f \in {} |-> "ok"]

\* the parsed values zod hands to onSubmit: the .trim() fields trimmed
Parsed(values) ==
    [f \in DOMAIN values |-> IF f \in TextFields THEN Trim(values[f]) ELSE values[f]]


----------------------------------------------------------------------------
(* The request onSubmit builds *)

\* the endpoint: data.submissionUrl || default in the userUrl variant, the
\* submissionUrl prop (at its default) in the fixedUrl variant
Endpoint(v, data) ==
    IF v = "userUrl"
    THEN IF data["submissionUrl"] # <<>> THEN data["submissionUrl"] ELSE DefaultUrl
    ELSE DefaultUrl

\* the JSON body without its timestamp; the fixedUrl variant sends phone as contact
Payload(v, data) ==
    [name          |-> data["name"],
     phoneKey      |-> IF v = "userUrl" THEN "phone" ELSE "contact",
     phone         |-> data["phone"],
     email         |-> data["email"],
     researchTopic |-> data["researchTopic"]]

\* response.ok
ResponseOk(status) == status >= 200 /\ status <= 299

Statuses == {200, 201, 299, 300, 404, 500}

----------------------------------------------------------------------------
(* The view *)

\* Mode without the isSubmitted branch
ModeWithoutSuccess == IF ~show THEN "hidden" ELSE "form"

\* which branch of the render function is on screen
Mode == IF ~show THEN "hidden"
        ELSE IF isSubmitted THEN "success"
        ELSE "form"

\* the inputs and the submit button are rendered with disabled={isSubmitting}
ControlsEnabled == Mode = "form" /\ ~isSubmitting

----------------------------------------------------------------------------
(* State *)

Slots == 1..MaxCalls

IdleCall == [pc |-> "idle"]

NoRun == [response |-> "none", setSubmitted |-> FALSE,
          successToast |-> FALSE, errorToast |-> FALSE]

\* what the user types in the state machine's runs: a field is blank or holds
\* one valid value
Sample(f) ==
    CASE f = "name"          -> <<"J","a","n","e">>
      [] f = "phone"         -> <<"5","5","5">>
      [] f = "email"         -> <<"j","@","x",".","e","d","u">>
      [] f = "researchTopic" -> <<"A","I">>
      [] f = "submissionUrl" -> DefaultUrl

TypedValues(f) == {<<>>, Sample(f)}

Init ==
    /\ variant \in Variants
    /\ show \in BOOLEAN
    /\ formValues = DefaultValues(variant)
    /\ errors = NoErrors
    /\ isSubmitting = FALSE
    /\ isSubmitted = FALSE
    /\ calls = [s \in Slots |-> IdleCall]
    /\ lastRun = NoRun

----------------------------------------------------------------------------
(* User events *)

\* typing into an input (field.onChange)
Edit(f, v) ==
    /\ ControlsEnabled
    /\ f \in Fields(variant)
    /\ formValues[f] # v
    /\ formValues' = [formValues EXCEPT ![f] = v]
    /\ UNCHANGED <<variant, show, errors, isSubmitting, isSubmitted, calls, lastRun>>

\* the form's submit event: form.handleSubmit(onSubmit) starts and hands the
\* current values to the resolver, whose promise is pending afterwards
SubmitEvent ==
    /\ ControlsEnabled
    /\ \E s \in Slots :
         /\ calls[s].pc = "idle"
         /\ \A r \in 1..(s-1) : calls[r].pc # "idle"
         /\ calls' = [calls EXCEPT ![s] = [pc |-> "validating", values |-> formValues]]
    /\ UNCHANGED <<variant, show, formValues, errors, isSubmitting, isSubmitted, lastRun>>

\* the "Submit Another Request" / "Invite Another Researcher" button
SubmitAnother ==
    /\ Mode = "success"
    /\ isSubmitted' = FALSE
    /\ UNCHANGED <<variant, show, formValues, errors, isSubmitting, calls, lastRun>>

----------------------------------------------------------------------------
(* handleSubmit after the resolver's promise *)

\* CallsOnValid that does not look at the errors
CallsOnValidAlways(result) == TRUE

\* handleSubmit calls onValid when the resolver reported no error
CallsOnValid(result) == DOMAIN result = {}

\* the resolver reported errors: they are stored, onSubmit is not called
HandleSubmitInvalid(s) ==
    /\ calls[s].pc = "validating"
    /\ ~CallsOnValid(Validate(calls[s].values))
    /\ errors' = Validate(calls[s].values)
    /\ calls' = [calls EXCEPT ![s] = IdleCall]
    /\ UNCHANGED <<variant, show, formValues, isSubmitting, isSubmitted, lastRun>>

\* the resolver reported none: onSubmit(data) runs to its await fetch(...)
OnSubmitStart(s) ==
    /\ calls[s].pc = "validating"
    /\ CallsOnValid(Validate(calls[s].values))
    /\ errors' = NoErrors
    /\ isSubmitting' = TRUE
    /\ calls' = [calls EXCEPT ![s] =
                   [pc          |-> "fetching",
                    url         |-> Endpoint(variant, Parsed(calls[s].values)),
                    payload     |-> Payload(variant, Parsed(calls[s].values)),
                    formAtStart |-> formValues]]
    /\ UNCHANGED <<variant, show, formValues, isSubmitted, lastRun>>

----------------------------------------------------------------------------
(* onSubmit after the await *)

\* FormReset that leaves the values as they are
FormResetSkipped == formValues

\* form.reset(): the values go back to defaultValues
FormReset == DefaultValues(variant)

\* Finally that leaves isSubmitting as it is
FinallyOmitted == isSubmitting

\* the finally block: setIsSubmitting(false)
Finally == FALSE

\* the catch block: the error toast, which may itself throw
Caught(response, didSet, errToastThrows) ==
    [response |-> response, setSubmitted |-> didSet,
     successToast |-> FALSE, errorToast |-> ~errToastThrows]

\* fetch resolved with a response of the given status: the rest of onSubmit
\* runs without another await.  toast is the application's own hook; whether
\* a call of it throws is an input (okToastThrows, errToastThrows).
FetchResolve(s, status, okToastThrows, errToastThrows) ==
    /\ calls[s].pc = "fetching"
    /\ calls' = [calls EXCEPT ![s] = IdleCall]
    /\ IF ResponseOk(status)
       THEN /\ isSubmitted' = TRUE
            /\ formValues' = FormReset
            /\ errors' = NoErrors
            /\ lastRun' = IF okToastThrows
                          THEN Caught("ok", TRUE, errToastThrows)
                          ELSE [response |-> "ok", setSubmitted |-> TRUE,
                                successToast |-> TRUE, errorToast |-> FALSE]
       ELSE /\ lastRun' = Caught("notOk", FALSE, errToastThrows)
            /\ UNCHANGED <<isSubmitted, formValues, errors>>
    /\ isSubmitting' = Finally
    /\ UNCHANGED <<variant, show>>

\* fetch rejected: a transport error
FetchReject(s, errToastThrows) ==
    /\ calls[s].pc = "fetching"
    /\ calls' = [calls EXCEPT ![s] = IdleCall]
    /\ lastRun' = Caught("threw", FALSE, errToastThrows)
    /\ isSubmitting' = Finally
    /\ UNCHANGED <<variant, show, isSubmitted, formValues, errors>>

----------------------------------------------------------------------------
(* Specifications *)

\* the order of the inputs on the form
FieldOrder == <<"name", "phone", "email", "researchTopic">>

Filled(f) == f \in DOMAIN formValues /\ formValues[f] # <<>>

\* The typing the runs cover: the user fills the text inputs from the top down
\* and clears them from the bottom up, types the URL input at any time, and
\* types nothing between a submit event and the resolver's answer to it.
Typable(f, v) ==
    /\ \A s \in Slots : calls[s].pc # "validating"
    /\ \/ f = "submissionUrl"
       \/ \E i \in 1..Len(FieldOrder) :
            /\ f = FieldOrder[i]
            /\ IF v # <<>>
               THEN \A j \in 1..(i-1) : Filled(FieldOrder[j])
               ELSE \A j \in (i+1)..Len(FieldOrder) : ~Filled(FieldOrder[j])

Next ==
    \/ \E f \in TextFields \cup {"submissionUrl"} : \E v \in TypedValues(f) :
           Typable(f, v) /\ Edit(f, v)
    \/ SubmitEvent
    \/ SubmitAnother
    \/ \E s \in Slots : HandleSubmitInvalid(s)
    \/ \E s \in Slots : OnSubmitStart(s)
    \/ \E s \in Slots : \E st \in Statuses : \E a, b \in BOOLEAN : FetchResolve(s, st, a, b)
    \/ \E s \in Slots : \E b \in BOOLEAN : FetchReject(s, b)

Spec == Init /\ [][Next]_vars


\* each fetch that was issued settles: it resolves or it rejects
Settle(s) ==
    \/ \E st \in Statuses : \E a, b \in BOOLEAN : FetchResolve(s, st, a, b)
    \/ \E b \in BOOLEAN : FetchReject(s, b)

FairSpec == Spec /\ \A s \in Slots : WF_vars(Settle(s))

----------------------------------------------------------------------------
(* The validation inputs: the schema applied to typed values *)

Pad(l, core, r) == Rep(" ", l) \o core \o Rep(" ", r)

Padded(core) ==
    {Pad(p[1], core, p[2]) :
        p \in {q \in (0..MaxPad) \X (0..MaxPad) : q[1] + q[2] <= MaxPad}}

JaneDoe == <<"J","a","n","e"," ","D","o","e">>
Phone555 == <<"5","5","5","-","1","2","3","4">>
JaneEmail == <<"j","a","n","e","@","x",".","e","d","u">>
NotAnEmail == <<"n","o","t","-","a","n","-","e","m","a","i","l">>
AiEthics == <<"A","I"," ","e","t","h","i","c","s">>
HttpsUrl == <<"h","t","t","p","s",":","/","/","x",".","c","o">>
NotAUrl == <<"n","o","p","e">>

NameInputs  == Padded(<<>>) \cup Padded(JaneDoe) \cup {Rep("a", NameMax + 1)}
PhoneInputs == Padded(<<>>) \cup Padded(Phone555)
                 \cup {Rep("5", PhoneMax), Rep("5", PhoneMax + 1)}
EmailInputs == Padded(<<>>) \cup Padded(JaneEmail)
                 \cup {NotAnEmail, Rep("a", EmailMax) \o <<"@","x",".","e","d","u">>}
TopicInputs == Padded(<<>>) \cup Padded(AiEthics) \cup {Rep("a", TopicMax + 1)}
UrlInputs   == Padded(<<>>) \cup Padded(HttpsUrl) \cup {NotAUrl}

FormInputs(v) ==
    IF v = "userUrl"
    THEN [name : NameInputs, phone : PhoneInputs, email : EmailInputs,
          researchTopic : TopicInputs, submissionUrl : UrlInputs]
    ELSE [name : NameInputs, phone : PhoneInputs, email : EmailInputs,
          researchTopic : TopicInputs]

\* a form that holds typed values, its submit event just dispatched
InitValidate ==
    /\ variant \in Variants
    /\ show = TRUE
    /\ formValues \in FormInputs(variant)
    /\ errors = NoErrors
    /\ isSubmitting = FALSE
    /\ isSubmitted = FALSE
    /\ calls = [s \in Slots |-> IF s = 1
                                THEN [pc |-> "validating", values |-> formValues]
                                ELSE IdleCall]
    /\ lastRun = NoRun

NextValidate ==
    \/ \E s \in Slots : HandleSubmitInvalid(s)
    \/ \E s \in Slots : OnSubmitStart(s)

ValidateSpec == InitValidate /\ [][NextValidate]_vars

----------------------------------------------------------------------------
(* Vocabulary of the properties *)

InFlight == {s \in Slots : calls[s].pc = "fetching"}

\* slot s leaves handleSubmit's validation in this step
Validated(s) == calls[s].pc = "validating" /\ calls'[s] # calls[s]

\* the onSubmit invocation of slot s settles in this step
Settled(s) == calls[s].pc = "fetching" /\ calls'[s].pc = "idle"

Failing(values) == {f \in DOMAIN values : CheckField(f, values[f]) # "ok"}

----------------------------------------------------------------------------
(* Properties *)

\* C1: at most one HTTP POST of a form instance is in flight at a time: a
\* submit request that arrives while an onSubmit is running issues no second
\* network call.
C1_AtMostOnePostInFlight == Cardinality(InFlight) <= 1

\* C2, as claimed: after a submission whose response is 2xx, isSubmitted is
\* true and every field, submissionUrl included, is the empty string.
C2_SuccessClearsToEmpty ==
    [][\A s \in Slots :
         (Settled(s) /\ lastRun'.response = "ok") =>
             /\ isSubmitted'
             /\ \A f \in DOMAIN formValues' : formValues'[f] = <<>>]_vars

\* C2, amended: after a submission whose response is 2xx, isSubmitted is true
\* and every field holds its default value: the empty string for name, phone,
\* email and researchTopic, the default URL for submissionUrl.
C2_SuccessResetsToDefaults ==
    [][\A s \in Slots :
         (Settled(s) /\ lastRun'.response = "ok") =>
             /\ isSubmitted'
             /\ DOMAIN formValues' = Fields(variant)
             /\ \A f \in TextFields : formValues'[f] = <<>>
             /\ variant = "userUrl" => formValues'["submissionUrl"] = DefaultUrl]_vars

C2_Witness ==
    /\ variant = "userUrl"
    /\ lastRun.response = "ok"
    /\ lastRun.successToast
    /\ isSubmitted
    /\ formValues["submissionUrl"] = DefaultUrl
    /\ formValues["name"] = <<>>

\* C3: after a submission that fails (a response that is not 2xx, or fetch
\* throws) every field equals its value when onSubmit was invoked, and the
\* state is Idle: neither isSubmitting nor isSubmitted.
C3_FailurePreservesAndIdles ==
    [][\A s \in Slots :
         (Settled(s) /\ lastRun'.response \in {"notOk", "threw"}) =>
             /\ formValues' = calls[s].formAtStart
             /\ ~isSubmitting'
             /\ ~isSubmitted']_vars

\* C4: a submit request whose values fail validation is refused: no POST is
\* issued for it, isSubmitting and the values stay as they are, and errors
\* holds an entry for exactly the failing fields.
C4_InvalidSubmitRefused ==
    [][\A s \in Slots :
         (Validated(s) /\ Failing(calls[s].values) # {}) =>
             /\ calls'[s].pc = "idle"
             /\ InFlight' = InFlight
             /\ UNCHANGED <<formValues, isSubmitting, isSubmitted>>
             /\ DOMAIN errors' = Failing(calls[s].values)]_vars

C4_Witness ==
    /\ DOMAIN errors # {}
    /\ "name" \in DOMAIN errors
    /\ \A s \in Slots : calls[s].pc = "idle"
    /\ ~isSubmitting
    /\ lastRun = NoRun

\* C5: an onSubmit invocation that settles has produced exactly one outcome,
\* Succeeded (isSubmitted set and the success toast) or Failed (the error
\* toast), never both and never neither, and isSubmitting is false after it.
C5_ExactlyOneOutcome ==
    [][\A s \in Slots :
         Settled(s) =>
             /\ \/ lastRun'.setSubmitted /\ lastRun'.successToast /\ ~lastRun'.errorToast
                \/ lastRun'.errorToast /\ ~lastRun'.setSubmitted /\ ~lastRun'.successToast
             /\ ~isSubmitting']_vars

C8_OnlyTheMissingField ==
    [][\A s \in Slots :
         Validated(s) =>
             \A f \in TextFields :
                 ( /\ Trim(calls[s].values[f]) = <<>>
                   /\ \A g \in DOMAIN calls[s].values \ {f} :
                          CheckField(g, calls[s].values[g]) = "ok" )
                 => DOMAIN errors' = {f}]_vars

C8_Witness ==
    /\ calls[1].pc = "idle"
    /\ formValues["email"] # <<>>
    /\ Trim(formValues["email"]) = <<>>
    /\ DOMAIN errors = {"email"}

\* C9: the format checks on email and submissionUrl fire only on a non-empty
\* trimmed value: when the trimmed value is empty, validation reports no
\* format error for that field.
C9_NoFormatErrorWhenEmpty ==
    [][\A s \in Slots :
         Validated(s) =>
             \A f \in {"email", "submissionUrl"} \cap DOMAIN calls[s].values :
                 Trim(calls[s].values[f]) = <<>> =>
                     ~(f \in DOMAIN errors' /\ errors'[f] = "format")]_vars

\* C10: whenever an HTTP POST issued by onSubmit is in flight, isSubmitting
\* is true.
C10_InFlightImpliesSubmitting == InFlight # {} => isSubmitting

============================================================================
